---- MODULE Spec2Model ----
(***************************************************************************)
(* The HTTP gateway of src/index.js: the in-memory catalog                 *)
(* (database.data, database.meta), the three per-name lock sets and the    *)
(* request handlers handleUpload, handleDownload and handleDelete as they  *)
(* are dispatched by onRequest.  Execution is single-threaded: a handler   *)
(* runs without interruption up to its awaited collaborator call, and      *)
(* again from the collaborator's settlement to the end of onRequest.       *)
(***************************************************************************)
EXTENDS Integers, Sequences, FiniteSets, TLC

\* ------------------------------------------------------------------ bounds
MaxReqs == 3        \* number of HTTP requests in one behaviour
MaxChunks == 2      \* longest chunk sequence the upload collaborator returns
MaxSize == 3        \* largest byte size the upload collaborator returns

Reqs == 1..MaxReqs

\* ------------------------------------------------------------------- names
\* A path segment is a sequence of characters; a request url "/s1/s2" is the
\* sequence of its segments.
\* The requested names: one with two spaces, one with one space, one with none.
SegASBSC == <<"a", " ", "b", " ", "c">>
SegAUBSC == <<"a", "_", "b", " ", "c">>
SegAUBUC == <<"a", "_", "b", "_", "c">>

Urls == { <<SegASBSC>>, <<SegAUBSC>>, <<SegAUBUC>> }

\* The urls of the catalog dump, "/cdn/<anything>".
SegCdn == <<"c", "d", "n">>

CdnUrls == { <<SegCdn, SegAUBUC>> }

\* req.url.startsWith('/cdn/')
IsCdnUrl(url) == Len(url) >= 2 /\ url[1] = SegCdn

\* lodash replace(string, ' ', '_') is String.prototype.replace with a string
\* pattern: only the first occurrence is replaced.
RECURSIVE ReplaceFirst(_, _, _)
ReplaceFirst(s, pat, sub) ==
    IF s = <<>> THEN <<>>
    ELSE IF Head(s) = pat THEN <<sub>> \o Tail(s)
    ELSE <<Head(s)>> \o ReplaceFirst(Tail(s), pat, sub)

\* req.url.split('/')[1]
FirstSegment(url) == url[1]

\* path.basename(req.url)
Basename(url) == url[Len(url)]

\* handleUpload's key
UploadKey(url) == ReplaceFirst(FirstSegment(url), " ", "_")

\* Every name that can key the catalog or a lock set.
Names == { FirstSegment(u) : u \in Urls } \cup { Basename(u) : u \in Urls }
            \cup { UploadKey(u) : u \in Urls }

\* ------------------------------------------------------------------- state
VARIABLES
    data,           \* database.data: name -> [files, size, length]
    meta,           \* database.meta: [size, length]
    uploadLock,     \* the module-level Set uploadLock
    downloadLock,   \* the module-level Set downloadLock
    deleteLock,     \* the module-level Set deleteLock
    authOn,         \* USERNAME && PASSWORD are configured
    cdnOn,          \* process.env.CDN is set
    alive,          \* the process has not been terminated
    req,            \* the requests: Reqs -> request record
    last,           \* the request onRequest returned from most recently
    conflicted      \* the names a delete has been refused for with 409
                    \* while an operation on the name was in flight

vars == <<data, meta, uploadLock, downloadLock, deleteLock, authOn, cdnOn,
          alive, req, last, conflicted>>

\* A name slot that holds no name.
NoName == <<>>

\* ---------------------------------------------------------------- response
\* The ServerResponse of one request, with the exception state of the code
\* running on it: statusCode is the property Node sends (200 unless set),
\* status is the ad-hoc property handleDownload assigns, head is the status
\* line that has been written (0 while no head has been written), threw says
\* that an exception is propagating.
\* body is the document handleCDN sends, <<>> for every other body.
\* rewrote says that writeHead was called with the head already written, or
\* end with the response already ended.
FreshRes == [statusCode |-> 200, status |-> 0, head |-> 0, ended |-> FALSE,
             threw |-> FALSE, body |-> <<>>, rewrote |-> FALSE]

\* res.writeHead(code): throws ERR_HTTP_HEADERS_SENT once a head is written.
WriteHead(x, code) ==
    IF x.threw THEN x
    ELSE IF x.head # 0 THEN [x EXCEPT !.threw = TRUE, !.rewrote = TRUE]
    ELSE [x EXCEPT !.head = code, !.statusCode = code]

\* res.end(): writes the implicit head, from statusCode, when none is written.
End(x) ==
    IF x.threw THEN x
    ELSE [x EXCEPT !.head = IF @ = 0 THEN x.statusCode ELSE @, !.ended = TRUE,
                   !.rewrote = @ \/ x.ended]

\* res.end(document)
EndWith(x, document) ==
    IF x.threw THEN x ELSE [End(x) EXCEPT !.body = document]

\* res.statusCode = code
SetStatusCode(x, code) == IF x.threw THEN x ELSE [x EXCEPT !.statusCode = code]

\* res.status = code (a property Node's response does not read)
SetStatus(x, code) == IF x.threw THEN x ELSE [x EXCEPT !.status = code]

\* A rejected await: the exception starts to propagate.
Throw(x) == [x EXCEPT !.threw = TRUE]

\* onRequest's catch clause: writeHead(500) and end, which throw in turn
\* when the head is already written.
OnRequestCatch(x) ==
    IF x.threw THEN End(WriteHead([x EXCEPT !.threw = FALSE], 500)) ELSE x

\* ---------------------------------------------------------------- requests
\* A request: pc is where its handler stands, route the handler onRequest
\* dispatched it to, key the name the handler works
\* on, invoked whether its collaborator was called, settled the state of the
\* promise onRequest returned, collab how its collaborator call settled,
\* stored the name an upload committed under, overlapped whether an upload
\* of the same key was refused while this one was awaiting its collaborator.
\* files and size are what the upload collaborator returned (an upload) or
\* what was handed to the download collaborator and declared as
\* Content-Length (a download).  before holds the totals as they were when
\* an upload committed; a delete that commits next, on the name that upload
\* stored, takes them over.
NewReq == [pc |-> "new", method |-> "", route |-> "", key |-> NoName,
           res |-> FreshRes, invoked |-> FALSE, settled |-> "pending",
           collab |-> "none", stored |-> NoName, overlapped |-> FALSE,
           files |-> <<>>, size |-> 0, before |-> <<>>]

\* A request whose handling is over; what it was answered is kept in last.
ClosedReq == [NewReq EXCEPT !.pc = "done"]

InFlight(r) == req[r].pc \in {"upload", "download", "delete"}

Quiescent == \A r \in Reqs : ~InFlight(r)

\* A chunk sequence of k handles, in reassembly order.
ChunkRefs(k) == [i \in 1..k |-> i]

\* The record with its length taken from the byte count.
RecordLengthFromSize(files, size) ==
    [files |-> files, size |-> size, length |-> size]

Record(files, size) == [files |-> files, size |-> size, length |-> Len(files)]

\* What the upload collaborator may resolve with.
Payloads == { [files |-> ChunkRefs(k), size |-> s] :
                    k \in {1, MaxChunks}, s \in {0, MaxSize} }

\* The names the upload collaborator may resolve to.
ResolvedNames(filename) == Names

\* The catalog bot.build() hands to buildHTTP: empty, or one stored object.
InitialCatalogs ==
    { [n \in {} |-> Record(<<>>, 0)],
      [n \in {SegAUBUC} |-> Record(ChunkRefs(1), 1)] }

RECURSIVE SumOver(_, _)
SumOver(f, field) ==
    IF DOMAIN f = {} THEN 0
    ELSE LET n == CHOOSE m \in DOMAIN f : TRUE
         IN f[n][field] + SumOver([m \in DOMAIN f \ {n} |-> f[m]], field)

Init ==
    /\ data \in InitialCatalogs
    /\ meta = [size |-> SumOver(data, "size"), length |-> SumOver(data, "length")]
    /\ uploadLock = {}
    /\ downloadLock = {}
    /\ deleteLock = {}
    /\ authOn \in BOOLEAN
    /\ cdnOn \in BOOLEAN
    /\ alive = TRUE
    /\ req = [r \in Reqs |-> NewReq]
    /\ last = NewReq
    /\ conflicted = {}

\* The request r enters onRequest: requests are numbered in arrival order.
Arrives(r) ==
    /\ alive
    /\ req[r].pc = "new"
    /\ \A q \in Reqs : q < r => req[q].pc # "new"

\* onRequest returns: its catch clause runs when an exception propagates,
\* and the promise it returned is rejected when the catch clause throws.
\* Nothing handles that rejection, and a rejection nobody handles ends the
\* process or not, by the runtime's version and flags.
Settle(r, rec, x) ==
    LET y == OnRequestCatch(x)
    IN /\ last' = [rec EXCEPT
                    !.pc = "done", !.res = y,
                    !.settled = IF y.threw THEN "rejected" ELSE "fulfilled"]
       /\ alive' \in (IF y.threw THEN BOOLEAN ELSE {TRUE})

Suspend(r, rec, x, pc) ==
    /\ req' = [req EXCEPT ![r] = [rec EXCEPT !.pc = pc, !.res = x,
                                            !.invoked = TRUE]]
    /\ UNCHANGED <<alive, last>>

\* onRequest, the Basic-Auth gate: 401 before any route is looked at.
Unauthorized(r) ==
    /\ Arrives(r)
    /\ authOn
    /\ Settle(r, req[r], End(SetStatusCode(FreshRes, 401)))
    /\ req' = [req EXCEPT ![r] = ClosedReq]
    /\ UNCHANGED <<data, meta, uploadLock, downloadLock, deleteLock, authOn, cdnOn,
                   conflicted>>

\* ------------------------------------------------------------------ upload
\* database.data[name] = record
Insert(d, name, rec) ==
    [n \in DOMAIN d \cup {name} |-> IF n = name THEN rec ELSE d[n]]

\* delete database.data[name]
Remove(d, name) == [n \in DOMAIN d \ {name} |-> d[n]]

\* The test without its catalog half.
UploadBlockedLockOnly(filename) == filename \in uploadLock

\* The test without its uploadLock half.
UploadBlockedCatalogOnly(filename) == filename \in DOMAIN data

\* handleUpload's test: the name has a record or is being uploaded.
UploadBlocked(filename) == filename \in DOMAIN data \/ filename \in uploadLock

\* handleUpload's commit, the three statements after the await.
UploadCommitData(d, name, p) == Insert(d, name, Record(p.files, p.size))

UploadCommitMeta(m, p) ==
    [size |-> m.size + p.size, length |-> m.length + Len(p.files)]

\* The finally clause missing: the name stays locked.
UploadReleaseMissing(lock, filename) == lock

\* handleUpload's finally clause.
UploadRelease(lock, filename) == lock \ {filename}

\* The requests with r closed, and the upload that holds filename, if one is
\* in flight, marked as having had a second upload of its name refused.
RefusedUpload(r, filename) ==
    [q \in Reqs |->
        IF q = r THEN ClosedReq
        ELSE IF req[q].pc = "upload" /\ req[q].key = filename
             THEN [req[q] EXCEPT !.overlapped = TRUE]
             ELSE req[q]]

\* POST /<name>: handleUpload up to its await.
UploadRequest(r, u) ==
    LET filename == UploadKey(u)
        rec == [req[r] EXCEPT !.method = "POST", !.route = "upload",
                              !.key = filename]
    IN /\ Arrives(r)
       /\ IF UploadBlocked(filename)
          THEN /\ Settle(r, rec, End(WriteHead(FreshRes, 409)))
               /\ req' = RefusedUpload(r, filename)
               /\ UNCHANGED uploadLock
          ELSE /\ uploadLock' = uploadLock \cup {filename}
               /\ Suspend(r, rec, FreshRes, "upload")
       /\ UNCHANGED <<data, meta, downloadLock, deleteLock, authOn, cdnOn,
                   conflicted>>

\* The upload collaborator resolves with {files, name, size}: the commit, the
\* finally clause, then the 303.
UploadResolve(r, p, name) ==
    /\ alive
    /\ req[r].pc = "upload"
    /\ data' = UploadCommitData(data, name, p)
    /\ meta' = UploadCommitMeta(meta, p)
    /\ uploadLock' = UploadRelease(uploadLock, req[r].key)
    /\ Settle(r, [req[r] EXCEPT !.collab = "resolved", !.stored = name,
                                !.files = p.files, !.size = p.size,
                                !.before = <<meta>>],
              End(WriteHead(req[r].res, 303)))
    /\ req' = [req EXCEPT ![r] = ClosedReq]
    /\ UNCHANGED <<downloadLock, deleteLock, authOn, cdnOn,
                   conflicted>>

\* The catch clause empty: the failure is swallowed and the 303 goes out.
UploadRejectSwallowed(r) ==
    /\ alive
    /\ req[r].pc = "upload"
    /\ uploadLock' = UploadRelease(uploadLock, req[r].key)
    /\ Settle(r, [req[r] EXCEPT !.collab = "rejected"],
              End(WriteHead(req[r].res, 303)))
    /\ req' = [req EXCEPT ![r] = ClosedReq]
    /\ UNCHANGED <<data, meta, downloadLock, deleteLock, authOn, cdnOn,
                   conflicted>>

\* The upload collaborator fails: the catch clause answers 500, the finally
\* clause runs, then the statements after the try run as well.
UploadReject(r) ==
    /\ alive
    /\ req[r].pc = "upload"
    /\ uploadLock' = UploadRelease(uploadLock, req[r].key)
    /\ Settle(r, [req[r] EXCEPT !.collab = "rejected"],
              End(WriteHead(End(WriteHead(req[r].res, 500)), 303)))
    /\ req' = [req EXCEPT ![r] = ClosedReq]
    /\ UNCHANGED <<data, meta, downloadLock, deleteLock, authOn, cdnOn,
                   conflicted>>

\* ---------------------------------------------------------------- download
\* The test with the delete lock consulted as well.
DownloadMissingOrDeleting(fileName) ==
    fileName \notin DOMAIN data \/ fileName \in deleteLock

\* handleDownload's test: the name has no record.
DownloadMissing(fileName) == fileName \notin DOMAIN data

\* The chunk count declared instead of the byte size.
ContentLengthFromCount(rec) == rec.length

\* The Content-Length handleDownload declares.
ContentLength(rec) == rec.size

\* The chunk sequence handleDownload hands to the download collaborator.
DownloadFiles(rec) == rec.files

\* GET /<name>: handleDownload up to its await.
DownloadRequest(r, u) ==
    LET fileName == Basename(u)
        rec == IF DownloadMissing(fileName)
               THEN [req[r] EXCEPT !.method = "GET", !.route = "download",
                        !.key = fileName]
               ELSE [req[r] EXCEPT !.method = "GET", !.route = "download",
                        !.key = fileName,
                        !.files = DownloadFiles(data[fileName]),
                        !.size = ContentLength(data[fileName])]
    IN /\ Arrives(r)
       /\ ~IsCdnUrl(u)
       /\ IF DownloadMissing(fileName)
          THEN /\ Settle(r, rec, End(SetStatus(FreshRes, 404)))
               /\ req' = [req EXCEPT ![r] = ClosedReq]
               /\ UNCHANGED downloadLock
          ELSE /\ downloadLock' = downloadLock \cup {fileName}
               /\ Suspend(r, rec, WriteHead(SetStatus(FreshRes, 200), 200),
                          "download")
       /\ UNCHANGED <<data, meta, uploadLock, deleteLock, authOn, cdnOn,
                   conflicted>>

\* The download collaborator has streamed the chunks and ended the response.
DownloadResolve(r) ==
    /\ alive
    /\ req[r].pc = "download"
    /\ downloadLock' = downloadLock \ {req[r].key}
    /\ Settle(r, [req[r] EXCEPT !.collab = "resolved"], End(req[r].res))
    /\ req' = [req EXCEPT ![r] = ClosedReq]
    /\ UNCHANGED <<data, meta, uploadLock, deleteLock, authOn, cdnOn,
                   conflicted>>

\* The download collaborator fails: nothing in handleDownload catches it.
DownloadReject(r) ==
    /\ alive
    /\ req[r].pc = "download"
    /\ Settle(r, [req[r] EXCEPT !.collab = "rejected"], Throw(req[r].res))
    /\ req' = [req EXCEPT ![r] = ClosedReq]
    /\ UNCHANGED <<data, meta, uploadLock, downloadLock, deleteLock, authOn, cdnOn,
                   conflicted>>

\* ------------------------------------------------------------------ delete
\* The test without its downloadLock part.
DeleteBlockedNoDownload(fileName) ==
    fileName \in uploadLock \/ fileName \in deleteLock

\* handleDelete's test: the name is in one of the three lock sets.
DeleteBlocked(fileName) ==
    fileName \in uploadLock \/ fileName \in downloadLock \/ fileName \in deleteLock

\* The catalog test left out: every name is taken to have a record.
DeleteMissingNever(fileName) == FALSE

\* handleDelete's first test: the name has no record.
DeleteMissing(fileName) == fileName \notin DOMAIN data

\* handleDelete's finally clause.
DeleteRelease(lock, fileName) == lock \ {fileName}

\* The byte total left as it is: only the chunk total is decremented.
DeleteCommitMetaLengthOnly(m, rec) ==
    [size |-> m.size, length |-> m.length - rec.length]

\* handleDelete's two decrements.
DeleteCommitMeta(m, rec) ==
    [size |-> m.size - rec.size, length |-> m.length - rec.length]

\* The request that ended last is an upload that committed under fileName,
\* and was answered 303.
UndoesLast(fileName) ==
    /\ last.method = "POST"
    /\ last.collab = "resolved"
    /\ last.res.head = 303
    /\ last.stored = fileName

\* DELETE /<name>: handleDelete up to its await.
DeleteRequest(r, u) ==
    LET fileName == FirstSegment(u)
        rec == [req[r] EXCEPT !.method = "DELETE", !.route = "delete",
                              !.key = fileName]
    IN /\ Arrives(r)
       /\ IF DeleteMissing(fileName)
          THEN /\ Settle(r, rec, End(WriteHead(FreshRes, 404)))
               /\ req' = [req EXCEPT ![r] = ClosedReq]
               /\ UNCHANGED <<deleteLock, conflicted>>
          ELSE IF DeleteBlocked(fileName)
          THEN /\ Settle(r, rec, End(WriteHead(FreshRes, 409)))
               /\ req' = [req EXCEPT ![r] = ClosedReq]
               /\ conflicted' =
                    IF \E q \in Reqs : InFlight(q) /\ req[q].key = fileName
                    THEN conflicted \cup {fileName} ELSE conflicted
               /\ UNCHANGED deleteLock
          ELSE /\ deleteLock' = deleteLock \cup {fileName}
               /\ Suspend(r, rec, FreshRes, "delete")
               /\ UNCHANGED conflicted
       /\ UNCHANGED <<data, meta, uploadLock, downloadLock, authOn, cdnOn>>

\* The delete collaborator resolves: the commit, the finally clause, the 200.
\* Reading the size of a record that is gone throws into the catch clause.
DeleteResolve(r) ==
    LET fileName == req[r].key
    IN /\ alive
       /\ req[r].pc = "delete"
       /\ deleteLock' = DeleteRelease(deleteLock, fileName)
       /\ IF fileName \in DOMAIN data
          THEN /\ meta' = DeleteCommitMeta(meta, data[fileName])
               /\ data' = Remove(data, fileName)
               /\ Settle(r, [req[r] EXCEPT !.collab = "resolved",
                                !.before = IF UndoesLast(fileName)
                                           THEN last.before ELSE <<>>],
                         End(WriteHead(req[r].res, 200)))
          ELSE /\ UNCHANGED <<data, meta>>
               /\ Settle(r, [req[r] EXCEPT !.collab = "resolved"],
                         End(WriteHead(End(WriteHead(req[r].res, 500)), 200)))
       /\ req' = [req EXCEPT ![r] = ClosedReq]
       /\ UNCHANGED <<uploadLock, downloadLock, authOn, cdnOn,
                   conflicted>>

\* The totals decremented before the await: a failure leaves them lowered.
DeleteRejectAfterDecrement(r) ==
    /\ alive
    /\ req[r].pc = "delete"
    /\ deleteLock' = DeleteRelease(deleteLock, req[r].key)
    /\ meta' = IF req[r].key \in DOMAIN data
               THEN DeleteCommitMeta(meta, data[req[r].key]) ELSE meta
    /\ Settle(r, [req[r] EXCEPT !.collab = "rejected"],
              End(WriteHead(End(WriteHead(req[r].res, 500)), 200)))
    /\ req' = [req EXCEPT ![r] = ClosedReq]
    /\ UNCHANGED <<data, uploadLock, downloadLock, authOn, cdnOn,
                   conflicted>>

\* The delete collaborator fails: 500 in the catch clause, the finally
\* clause, then the statements after the try.
DeleteReject(r) ==
    /\ alive
    /\ req[r].pc = "delete"
    /\ deleteLock' = DeleteRelease(deleteLock, req[r].key)
    /\ Settle(r, [req[r] EXCEPT !.collab = "rejected"],
              End(WriteHead(End(WriteHead(req[r].res, 500)), 200)))
    /\ req' = [req EXCEPT ![r] = ClosedReq]
    /\ UNCHANGED <<data, meta, uploadLock, downloadLock, authOn, cdnOn,
                   conflicted>>

\* --------------------------------------------------------------------- cdn
\* JSON.stringify(database): the document with the data and meta sections.
\* Names, chunk handles and the integer sizes and counts are written as they
\* are.
JsonDocument(d, m) == [data |-> d, meta |-> m]

\* The flag ignored: the dump is served whatever the environment says.
CdnDisabledNever == FALSE

\* handleCDN's test: process.env.CDN is not set.
CdnDisabled == ~cdnOn

\* GET /cdn/...: handleCDN.
CdnRequest(r, u) ==
    LET rec == [req[r] EXCEPT !.method = "GET", !.route = "cdn"]
    IN /\ Arrives(r)
       /\ IsCdnUrl(u)
       /\ IF CdnDisabled
          THEN Settle(r, rec, End(WriteHead(FreshRes, 404)))
          ELSE Settle(r, rec,
                      EndWith(WriteHead(FreshRes, 200), JsonDocument(data, meta)))
       /\ req' = [req EXCEPT ![r] = ClosedReq]
       /\ UNCHANGED <<data, meta, uploadLock, downloadLock, deleteLock, authOn,
                      cdnOn, conflicted>>

\* ----------------------------------------------------------- specification
Next ==
    \/ \E r \in Reqs : Unauthorized(r)
    \/ \E r \in Reqs, u \in Urls : UploadRequest(r, u)
    \/ \E r \in Reqs, p \in Payloads : \E name \in ResolvedNames(req[r].key) :
            UploadResolve(r, p, name)
    \/ \E r \in Reqs : UploadReject(r)
    \/ \E r \in Reqs, u \in Urls : DownloadRequest(r, u)
    \/ \E r \in Reqs : DownloadResolve(r)
    \/ \E r \in Reqs : DownloadReject(r)
    \/ \E r \in Reqs, u \in Urls : DeleteRequest(r, u)
    \/ \E r \in Reqs : DeleteResolve(r)
    \/ \E r \in Reqs : DeleteReject(r)
    \/ \E r \in Reqs, u \in CdnUrls : CdnRequest(r, u)

Spec == Init /\ [][Next]_vars

\* The same program with an upload collaborator that resolves with the name
\* it was given.
NextEcho ==
    \/ \E r \in Reqs : Unauthorized(r)
    \/ \E r \in Reqs, u \in Urls : UploadRequest(r, u)
    \/ \E r \in Reqs, p \in Payloads : UploadResolve(r, p, req[r].key)
    \/ \E r \in Reqs : UploadReject(r)
    \/ \E r \in Reqs, u \in Urls : DownloadRequest(r, u)
    \/ \E r \in Reqs : DownloadResolve(r)
    \/ \E r \in Reqs : DownloadReject(r)
    \/ \E r \in Reqs, u \in Urls : DeleteRequest(r, u)
    \/ \E r \in Reqs : DeleteResolve(r)
    \/ \E r \in Reqs : DeleteReject(r)
    \/ \E r \in Reqs, u \in CdnUrls : CdnRequest(r, u)

SpecEcho == Init /\ [][NextEcho]_vars

\* ------------------------------------------------------------------ claims
\* In this step the request q enters the handler of method m, which works on
\* the name k.
Handled(q, m, k) ==
    /\ req[q].pc = "new"
    /\ \/ req'[q].pc = "done" /\ last'.method = m /\ last'.key = k
       \/ req'[q].pc \notin {"new", "done"} /\ req'[q].method = m
            /\ req'[q].key = k

\* In this step the request q is answered with the status code, without its
\* collaborator having been called and without the shared state changing.
Refused(q, code) ==
    /\ req'[q].pc = "done"
    /\ last'.res.head = code
    /\ last'.res.ended
    /\ ~last'.invoked
    /\ last'.stored = NoName
    /\ data' = data
    /\ meta' = meta
    /\ uploadLock' = uploadLock
    /\ downloadLock' = downloadLock
    /\ deleteLock' = deleteLock

\* In this step the handler of request r, suspended in pc, runs to its end.
Finishes(r, pc) == req[r].pc = pc /\ req'[r].pc = "done"

TotalsMatch ==
    /\ meta.size = SumOver(data, "size")
    /\ meta.length = SumOver(data, "length")

\* C1: in every quiescent state (no upload, download or delete in flight)
\* meta.size is the sum of the records' size and meta.length the sum of the
\* records' length.
C1_QuiescentTotals == Quiescent => TotalsMatch

\* C2, as claimed: when a second upload of a name arrives while the first is
\* awaiting the collaborator, the second is answered 409 without a
\* collaborator call, and the first commits a record, so that the catalog
\* holds a record for the name when the first ends.
C2_ExactlyOneCommits ==
    [][\A r \in Reqs :
        /\ \A q \in Reqs :
             (req[r].pc = "upload" /\ Handled(q, "POST", req[r].key))
                => Refused(q, 409)
        /\ (Finishes(r, "upload") /\ req[r].overlapped)
             => (last'.stored = req[r].key /\ req[r].key \in DOMAIN data')
      ]_vars

\* C2, amended: the second upload is answered 409 without a collaborator
\* call and commits nothing; the first commits one record exactly when its
\* collaborator succeeds, under the name the collaborator returned, and
\* leaves the catalog as it is when the collaborator fails.
C2_AtMostOneCommits ==
    [][\A r \in Reqs :
        /\ \A q \in Reqs :
             (req[r].pc = "upload" /\ Handled(q, "POST", req[r].key))
                => Refused(q, 409)
        /\ (Finishes(r, "upload") /\ req[r].overlapped)
             => IF last'.collab = "resolved"
                THEN /\ last'.stored \in Names
                     /\ DOMAIN data' = DOMAIN data \cup {last'.stored}
                     /\ \A n \in DOMAIN data \ {last'.stored} :
                            data'[n] = data[n]
                ELSE /\ last'.stored = NoName
                     /\ data' = data
      ]_vars

\* C2's case: an upload that had a second upload of its name refused has
\* committed under that name.
C2_Witness ==
    /\ last.method = "POST"
    /\ last.overlapped
    /\ last.collab = "resolved"
    /\ last.stored = last.key
    /\ last.key \in DOMAIN data

Locked(k) == k \in uploadLock \/ k \in downloadLock \/ k \in deleteLock

\* C3, as claimed: a delete request for a name that is in uploadLock,
\* downloadLock or deleteLock is answered 409, calls no collaborator and
\* changes neither the catalog, the totals nor a lock set.
C3_DeleteOfLockedIs409 ==
    [][\A q \in Reqs, k \in Names :
        (Locked(k) /\ Handled(q, "DELETE", k)) => Refused(q, 409)]_vars

\* C3, amended: such a delete request calls no collaborator and changes
\* nothing; it is answered 409 when the name has a catalog record, and 404
\* when it has none (a name that is only being uploaded).
C3_DeleteOfLockedIsRefused ==
    [][\A q \in Reqs, k \in Names :
        (Locked(k) /\ Handled(q, "DELETE", k))
            => Refused(q, IF k \in DOMAIN data THEN 409 ELSE 404)]_vars

\* C3's case: a delete has just been answered 409 for a name that is locked.
C3_Witness ==
    /\ last.method = "DELETE"
    /\ last.res.head = 409
    /\ Locked(last.key)
    /\ last.key \in DOMAIN data

\* C4: a name a delete was refused for with 409 because an operation on it
\* was in flight, which has a catalog record and no operation in flight any
\* more, is in no lock set: the next delete request for it is not answered
\* 409.
C4_DeleteAfterConflict ==
    \A k \in conflicted :
        (k \in DOMAIN data /\ ~\E r \in Reqs : InFlight(r) /\ req[r].key = k)
            => ~DeleteBlocked(k)

\* C5: when the handler of an accepted upload or delete runs to its end,
\* with its collaborator resolved or rejected, the name it locked is no
\* longer in uploadLock, respectively deleteLock.
C5_LockReleased ==
    [][\A r \in Reqs :
        /\ Finishes(r, "upload") => req[r].key \notin uploadLock'
        /\ Finishes(r, "delete") => req[r].key \notin deleteLock'
      ]_vars

\* C5's case: an upload whose collaborator failed has ended and its name is
\* out of uploadLock.
C5_Witness ==
    /\ last.method = "POST"
    /\ last.collab = "rejected"
    /\ last.key \notin uploadLock

\* C6: no name stays in downloadLock after its download has ended: every
\* name in downloadLock has a download in flight.
C6_DownloadLockReleased ==
    \A k \in downloadLock :
        \E r \in Reqs : req[r].pc = "download" /\ req[r].key = k

\* C7: when the upload collaborator fails, the step that handles the
\* failure leaves the catalog and the totals as they are and the request is
\* answered 500.
C7_UploadFailure ==
    [][\A r \in Reqs :
        (Finishes(r, "upload") /\ last'.collab = "rejected")
            => (data' = data /\ meta' = meta /\ last'.res.head = 500)]_vars

\* C7's case: an accepted upload has ended with its collaborator failed.
C7_Witness ==
    /\ last.method = "POST"
    /\ last.invoked
    /\ last.collab = "rejected"
    /\ last.res.head = 500

\* C8: when the delete collaborator fails, the record stays in the catalog
\* unchanged, the totals are unchanged and the request is answered 500.
C8_DeleteFailure ==
    [][\A r \in Reqs :
        (Finishes(r, "delete") /\ last'.collab = "rejected")
            => /\ data' = data
               /\ req[r].key \in DOMAIN data'
               /\ meta' = meta
               /\ last'.res.head = 500]_vars

\* C8's case: an accepted delete has ended with its collaborator failed and
\* the record is still there.
C8_Witness ==
    /\ last.method = "DELETE"
    /\ last.invoked
    /\ last.collab = "rejected"
    /\ last.res.head = 500
    /\ last.key \in DOMAIN data

\* C9: no exception escapes onRequest: the promise it returns is never
\* rejected, and the process stays alive.
C9_NoEscape == last.settled # "rejected" /\ alive

\* C10: a download request for a name without a catalog record is answered
\* 404, calls no collaborator and changes neither the catalog, the totals
\* nor a lock set.
C10_DownloadMissing ==
    [][\A q \in Reqs, k \in Names :
        (k \notin DOMAIN data /\ Handled(q, "GET", k)) => Refused(q, 404)]_vars

\* C11: a delete request for a name without a catalog record is answered
\* 404, calls no collaborator and changes neither the catalog, the totals
\* nor a lock set.
C11_DeleteMissing ==
    [][\A q \in Reqs, k \in Names :
        (k \notin DOMAIN data /\ Handled(q, "DELETE", k)) => Refused(q, 404)]_vars

\* C11's case: a delete has just been answered 404 for a name that has no
\* record.
C11_Witness ==
    /\ last.method = "DELETE"
    /\ last.res.head = 404
    /\ ~last.invoked
    /\ last.key \notin DOMAIN data

\* C12: a delete of X answered 200 that commits right after an upload
\* committed under X and was answered 303 leaves the catalog without a
\* record for X and the totals as they were before the upload committed.
C12_UploadThenDelete ==
    (last.method = "DELETE" /\ last.collab = "resolved" /\ last.before # <<>>)
        => /\ last.res.head = 200
           /\ last.key \notin DOMAIN data
           /\ meta = last.before[1]

\* C12's case: a delete has committed right after the upload of its name.
C12_Witness ==
    /\ last.method = "DELETE"
    /\ last.collab = "resolved"
    /\ last.before # <<>>
    /\ last.res.head = 200

HasSpace(name) == \E i \in 1..Len(name) : name[i] = " "

\* C14: the key handleUpload uses for the uploadLock test, the catalog test
\* and the collaborator call contains no space, whatever the requested name.
C14_UploadKeyHasNoSpace ==
    /\ \A k \in uploadLock : ~HasSpace(k)
    /\ \A r \in Reqs : req[r].pc = "upload" => ~HasSpace(req[r].key)
    /\ last.method = "POST" => ~HasSpace(last.key)

\* In this step the request q is dispatched to handleCDN and answered.
HandledCdn(q) ==
    req[q].pc = "new" /\ req'[q].pc = "done" /\ last'.route = "cdn"

\* C15: with the CDN flag disabled a GET /cdn/... request is answered 404
\* whatever the catalog holds; with the flag enabled it is answered 200 with
\* a document whose data section is the catalog and whose meta section is
\* the totals.
C15_CdnDump ==
    [][\A q \in Reqs :
        HandledCdn(q)
        => /\ last'.res.ended
           /\ IF cdnOn
              THEN /\ last'.res.head = 200
                   /\ last'.res.body.data = data
                   /\ last'.res.body.meta = meta
              ELSE /\ last'.res.head = 404
                   /\ last'.res.body = <<>>]_vars

\* C15's case: the dump of a catalog that is not empty has been served.
C15_Witness ==
    /\ last.route = "cdn"
    /\ cdnOn
    /\ DOMAIN data # {}
    /\ last.res.head = 200
    /\ last.res.body = JsonDocument(data, meta)

\* C16: when the upload collaborator succeeds with {files, name, size}, one
\* step inserts the record {files, size, length = number of files} under the
\* returned name and adds size to meta.size and the number of files to
\* meta.length; every record of the catalog has length equal to the length
\* of its chunk sequence; and no name gains a record in any other step.
C16_AtomicInsert ==
    [][/\ \A r \in Reqs :
            (Finishes(r, "upload") /\ last'.collab = "resolved")
            => /\ data' = Insert(data, last'.stored,
                                 [files |-> last'.files, size |-> last'.size,
                                  length |-> Len(last'.files)])
               /\ meta' = [size |-> meta.size + last'.size,
                           length |-> meta.length + Len(last'.files)]
       /\ \A n \in DOMAIN data' : data'[n].length = Len(data'[n].files)
       /\ (DOMAIN data' \ DOMAIN data # {}
           => \E r \in Reqs :
                Finishes(r, "upload") /\ last'.collab = "resolved")]_vars

\* C16's case: an upload of several chunks has been committed and its record
\* is in the catalog.
C16_Witness ==
    /\ last.route = "upload"
    /\ last.collab = "resolved"
    /\ Len(last.files) = MaxChunks
    /\ last.size = MaxSize
    /\ last.stored \in DOMAIN data
    /\ data[last.stored].files = last.files
    /\ data[last.stored].length = MaxChunks

\* C17: a record is immutable after insertion: while a name keeps its record,
\* the record's chunk sequence, size and chunk count do not change; no upload
\* commit overwrites an existing record, also when the upload collaborator
\* resolves with a name other than the one that was locked.
C17_RecordImmutable ==
    [][\A n \in DOMAIN data \cap DOMAIN data' : data'[n] = data[n]]_vars

\* C18: download consults none of the three lock sets: a download request
\* for a name that has a record is accepted and calls the download
\* collaborator, whatever the lock sets hold, also while a delete or another
\* download of the name is in flight; and an upload of a name that has no
\* record and is not in uploadLock is accepted, whatever downloadLock and
\* deleteLock hold.
C18_LockConsultation ==
    [][\A q \in Reqs, k \in Names :
        /\ (Handled(q, "GET", k) /\ k \in DOMAIN data)
           => /\ req'[q].pc = "download"
              /\ req'[q].invoked
              /\ downloadLock' = downloadLock \cup {k}
        /\ (Handled(q, "POST", k) /\ k \notin DOMAIN data
                /\ k \notin uploadLock)
           => /\ req'[q].pc = "upload"
              /\ req'[q].invoked
              /\ uploadLock' = uploadLock \cup {k}]_vars

\* C18's case: a download is in flight together with a delete of the same
\* name; delete refuses a name that is being downloaded, so the download was
\* accepted while the delete was in flight.
C18_Witness ==
    \E q, r \in Reqs :
        /\ req[q].pc = "download"
        /\ req[q].invoked
        /\ req[r].pc = "delete"
        /\ req[r].key = req[q].key
        /\ req[q].key \in deleteLock

\* C19: every request gets exactly one response status: no handler calls
\* writeHead with the head already written or end with the response already
\* ended; after an upload or a delete has answered 500 for a failure of its
\* collaborator, no 303 or 200 head is written for the request.
C19_SingleResponse ==
    /\ ~last.res.rewrote
    /\ \A r \in Reqs : ~req[r].res.rewrote

\* C20: with an upload collaborator that resolves with the name it was
\* given, in every reachable state every name in deleteLock has a record, no
\* name in uploadLock has a record, and no name is in uploadLock and in
\* deleteLock at once.
C20_LockedNames ==
    /\ \A k \in deleteLock : k \in DOMAIN data
    /\ \A k \in uploadLock : k \notin DOMAIN data
    /\ uploadLock \cap deleteLock = {}

\* C20's case: an upload and a delete are in flight at once, each holding
\* its lock.
C20_Witness ==
    \E q, r \in Reqs :
        /\ req[q].pc = "upload"
        /\ req[r].pc = "delete"
        /\ req[q].key \in uploadLock
        /\ req[r].key \in deleteLock

====
